---- MODULE Spec2Model ----
(***************************************************************************)
(* A model of the rustregex engine: the combinator parser of the regex     *)
(* grammar, the compiler from the syntax tree to a Thompson automaton, and *)
(* the multi-start simulation behind full_match, greedy_search and         *)
(* global_search.                                                          *)
(*                                                                         *)
(* A regex source and an input are sequences of characters; a character is *)
(* a one-element name ("a", "|", ...).  "eacute" stands for the two-byte   *)
(* character U+00E9.                                                       *)
(***************************************************************************)
EXTENDS Integers, Sequences, FiniteSets, TLC

VARIABLES source, ast, regex, call

vars == <<source, ast, regex, call>>

(***************************************************************************)
(* Bounds of the model.                                                    *)
(***************************************************************************)
MaxSrcLen == 2

MaxInputLen == 4

MaxNonAsciiLen == 2

MaxRep == 2

MaxDigits == 4

(* The width of usize, scaled down so that a number of three digits can    *)
(* exceed it.                                                              *)
UsizeBits == 8

(***************************************************************************)
(* Characters.                                                             *)
(***************************************************************************)
Digits == <<"0", "1", "2", "3", "4", "5", "6", "7", "8", "9">>

IsAsciiDigit(c) == \E i \in DOMAIN Digits : Digits[i] = c

ToDigit(c) == (CHOOSE i \in DOMAIN Digits : Digits[i] = c) - 1

MultiByte == {"eacute"}

Utf8(c) == IF c \in MultiByte THEN <<"C3", "A9">> ELSE <<c>>

AsciiLetters == {"a", "b", "c", "d", "w", "B", "W"}

IsAlphanumeric(c) == c \in AsciiLetters \cup MultiByte \/ IsAsciiDigit(c)

IsAsciiAlphanumeric(c) == c \in AsciiLetters \/ IsAsciiDigit(c)

IsAsciiWhitespace(c) == c \in {" ", "TAB", "LF", "FF", "CR"}

(***************************************************************************)
(* Parser combinators: a parser maps the remaining input to Fail or to a   *)
(* value and the rest of the input.                                        *)
(***************************************************************************)
Fail == [ok |-> FALSE]

Ok(v, r) == [ok |-> TRUE, val |-> v, rest |-> r]

Union2(p1, p2) == IF p1.ok THEN p1 ELSE p2

Union3(p1, p2, p3) == IF p1.ok THEN p1 ELSE IF p2.ok THEN p2 ELSE p3

Union4(p1, p2, p3, p4) == IF p1.ok THEN p1 ELSE IF p2.ok THEN p2 ELSE IF p3.ok THEN p3 ELSE p4

Cons(first, more) == Ok(<<first.val>> \o more.val, more.rest)

Tagged(p, v) == IF p.ok THEN Ok(v, p.rest) ELSE Fail

any(e) == IF e = <<>> THEN Fail ELSE Ok(Head(e), Tail(e))

character(ch, e) == IF e # <<>> /\ Head(e) = ch THEN Ok(ch, Tail(e)) ELSE Fail

escaped(e) ==
    LET then(b) == IF b.ok THEN any(b.rest) ELSE Fail
    IN  then(character("\\", e))

end(e) == IF e = <<>> THEN Ok(<<>>, e) ELSE Fail

string(str, e) ==
    IF Len(e) >= Len(str) /\ SubSeq(e, 1, Len(str)) = str
    THEN Ok(str, SubSeq(e, Len(str) + 1, Len(e)))
    ELSE Fail

digit(e) ==
    IF e # <<>> /\ IsAsciiDigit(Head(e)) THEN Ok(ToDigit(Head(e)), Tail(e)) ELSE Fail

RECURSIVE repeat_digit(_)
repeat_digit(e) ==
    LET step(d) == IF d.ok THEN Cons(d, repeat_digit(d.rest)) ELSE Ok(<<>>, e)
    IN  step(digit(e))

RECURSIVE FoldOverflows(_, _)
FoldOverflows(v, result) ==
    /\ v # <<>>
    /\ \/ result * 10 + Head(v) >= 2 ^ UsizeBits
       \/ FoldOverflows(Tail(v), result * 10 + Head(v))

RECURSIVE FoldDigits(_, _)
FoldDigits(v, result) ==
    IF v = <<>> THEN result
    ELSE FoldDigits(Tail(v), (result * 10 + Head(v)) % (2 ^ UsizeBits))

number(e) ==
    LET map(ds) == IF ds.val # <<>> THEN Ok(FoldDigits(ds.val, 0), ds.rest) ELSE Fail
    IN  map(repeat_digit(e))

(***************************************************************************)
(* Option values.                                                          *)
(***************************************************************************)
None == [some |-> FALSE]

Some(v) == [some |-> TRUE, val |-> v]

(***************************************************************************)
(* The regex grammar.  Each rule is a parser over the rules below it.      *)
(***************************************************************************)
SpecialChar == {"^", "$", "|", "*", "?", "+", ".", "\\", "-", "(", ")", "{", "}", "[", "]"}

CharGroupSpecial == {"^", "\\", "-", "]"}

control_char(e) ==
    LET map(x) ==
            IF ~x.ok THEN Fail
            ELSE IF x.val = "t" THEN Ok("TAB", x.rest)
            ELSE IF x.val = "n" THEN Ok("LF", x.rest)
            ELSE IF x.val = "r" THEN Ok("CR", x.rest)
            ELSE IF x.val = "v" THEN Ok("VT", x.rest)
            ELSE IF x.val = "f" THEN Ok("FF", x.rest)
            ELSE IF x.val = "0" THEN Ok("NUL", x.rest)
            ELSE Fail
    IN  map(escaped(e))

char_any_escape(e) ==
    LET exclude(p) == IF p.ok /\ p.val \notin SpecialChar THEN p ELSE Fail
    IN  Union3(exclude(any(e)), escaped(e), control_char(e))

char(e) ==
    LET exclude(p) == IF p.ok /\ p.val \notin SpecialChar THEN p ELSE Fail
        filter(p) == IF p.ok /\ p.val \in SpecialChar THEN p ELSE Fail
    IN  Union3(exclude(any(e)), filter(escaped(e)), control_char(e))

character_class(e) ==
    LET map(x) ==
            IF ~x.ok THEN Fail
            ELSE IF x.val = "w" THEN Ok("Alphanumeric", x.rest)
            ELSE IF x.val = "W" THEN Ok("NotAlphanumeric", x.rest)
            ELSE IF x.val = "d" THEN Ok("Digit", x.rest)
            ELSE IF x.val = "D" THEN Ok("NotDigit", x.rest)
            ELSE IF x.val = "s" THEN Ok("Whitespace", x.rest)
            ELSE IF x.val = "S" THEN Ok("NotWhitespace", x.rest)
            ELSE Fail
    IN  map(escaped(e))

character_group_char(e) ==
    LET exclude(p) == IF p.ok /\ p.val \notin CharGroupSpecial THEN p ELSE Fail
        filter(p) == IF p.ok /\ p.val \in CharGroupSpecial THEN p ELSE Fail
    IN  Union3(exclude(any(e)), filter(escaped(e)), control_char(e))

character_range(e) ==
    LET upper(lo, hi) == IF hi.ok THEN Ok(<<lo.val, hi.val>>, hi.rest) ELSE Fail
        dash(lo, d) == IF d.ok THEN upper(lo, character_group_char(d.rest)) ELSE Fail
        lower(lo) == IF lo.ok THEN dash(lo, character("-", lo.rest)) ELSE Fail
    IN  lower(character_group_char(e))

character_group_item(e) ==
    LET class(cc) == IF cc.ok THEN Ok([t |-> "CharacterClass", cc |-> cc.val], cc.rest) ELSE Fail
        range(cr) ==
            IF cr.ok THEN Ok([t |-> "CharacterRange", lo |-> cr.val[1], hi |-> cr.val[2]], cr.rest)
            ELSE Fail
        single(ch) == IF ch.ok THEN Ok([t |-> "Char", c |-> ch.val], ch.rest) ELSE Fail
    IN  Union3(class(character_class(e)), range(character_range(e)),
               single(character_group_char(e)))

RECURSIVE repeat_character_group_item(_)
repeat_character_group_item(e) ==
    LET step(it) == IF it.ok THEN Cons(it, repeat_character_group_item(it.rest)) ELSE Ok(<<>>, e)
    IN  step(character_group_item(e))

character_group(e) ==
    LET close(items, c) == IF c.ok THEN Ok(items.val, c.rest) ELSE Fail
        body(items) == IF items.val # <<>> THEN close(items, character("]", items.rest)) ELSE Fail
        open(o) == IF o.ok THEN body(repeat_character_group_item(o.rest)) ELSE Fail
    IN  open(character("[", e))

match(e) ==
    LET class(cc) == IF cc.ok THEN Ok([t |-> "CharacterClass", cc |-> cc.val], cc.rest) ELSE Fail
        grp(cg) == IF cg.ok THEN Ok([t |-> "CharacterGroup", items |-> cg.val], cg.rest) ELSE Fail
        single(ch) == IF ch.ok THEN Ok([t |-> "Char", c |-> ch.val], ch.rest) ELSE Fail
    IN  Union4(Tagged(character(".", e), [t |-> "Any"]), class(character_class(e)),
               grp(character_group(e)), single(char(e)))

backreference(e) ==
    LET map(x) ==
            IF x.ok /\ IsAsciiDigit(x.val) /\ ToDigit(x.val) # 0
            THEN Ok(ToDigit(x.val), x.rest)
            ELSE Fail
    IN  map(escaped(e))

range_quantifier(e) ==
    LET close(lower, maybe_end, c) ==
            IF c.ok
            THEN Ok(<<lower.val, IF maybe_end.some THEN maybe_end.val ELSE Some(lower.val)>>,
                    c.rest)
            ELSE Fail
        upper(lower, comma, u) ==
            IF u.ok THEN close(lower, Some(Some(u.val)), character("}", u.rest))
            ELSE close(lower, Some(None), character("}", comma.rest))
        separator(lower, comma) ==
            IF comma.ok THEN upper(lower, comma, number(comma.rest))
            ELSE close(lower, None, character("}", lower.rest))
        start(lower) == IF lower.ok THEN separator(lower, character(",", lower.rest)) ELSE Fail
        open(o) == IF o.ok THEN start(number(o.rest)) ELSE Fail
    IN  open(character("{", e))

quantifier(e) ==
    LET range(r) ==
            IF r.ok THEN Ok([t |-> "Range", lower |-> r.val[1], upper |-> r.val[2]], r.rest)
            ELSE Fail
    IN  Union4(Tagged(character("*", e), [t |-> "ZeroOrMore"]),
               Tagged(character("+", e), [t |-> "OneOrMore"]),
               Tagged(character("?", e), [t |-> "ZeroOrOne"]),
               range(range_quantifier(e)))

anchor(e) ==
    LET boundary(x) ==
            IF x.ok /\ x.val = "b" THEN Ok("WordBoundary", x.rest)
            ELSE IF x.ok /\ x.val = "B" THEN Ok("NotWordBoundary", x.rest)
            ELSE Fail
    IN  Union3(Tagged(character("^", e), "Start"), boundary(escaped(e)),
               Tagged(character("$", e), "End"))

RECURSIVE expression(_)
RECURSIVE repeat_alternative(_)
RECURSIVE subexpression(_)
RECURSIVE repeat_basic_expression(_)
RECURSIVE basic_expression(_)
RECURSIVE quantified(_)
RECURSIVE quantifiable(_)
RECURSIVE group(_)

group(e) ==
    LET close(nc, inner, c) ==
            IF c.ok
            THEN Ok([non_capturing |-> nc.ok, index |-> 0, expr |-> inner.val], c.rest)
            ELSE Fail
        body(nc, inner) == IF inner.ok THEN close(nc, inner, character(")", inner.rest)) ELSE Fail
        exists(o, nc) == body(nc, expression(IF nc.ok THEN nc.rest ELSE o.rest))
        open(o) == IF o.ok THEN exists(o, string(<<":", "?">>, o.rest)) ELSE Fail
    IN  open(character("(", e))

quantifiable(e) ==
    LET grp(g) == IF g.ok THEN Ok([t |-> "Group", g |-> g.val], g.rest) ELSE Fail
        mtch(m) == IF m.ok THEN Ok([t |-> "Match", m |-> m.val], m.rest) ELSE Fail
        bref(br) == IF br.ok THEN Ok([t |-> "Backreference", n |-> br.val], br.rest) ELSE Fail
    IN  Union3(grp(group(e)), mtch(match(e)), bref(backreference(e)))

quantified(e) ==
    LET maybe(q, quant) ==
            IF quant.ok THEN Ok(<<q.val, Some(quant.val)>>, quant.rest)
            ELSE Ok(<<q.val, None>>, q.rest)
        first(q) == IF q.ok THEN maybe(q, quantifier(q.rest)) ELSE Fail
    IN  first(quantifiable(e))

basic_expression(e) ==
    LET anch(a) == IF a.ok THEN Ok([t |-> "Anchor", anchor |-> a.val], a.rest) ELSE Fail
        quant(q) == IF q.ok THEN Ok([t |-> "Quantified", q |-> q.val], q.rest) ELSE Fail
    IN  Union2(anch(anchor(e)), quant(quantified(e)))

repeat_basic_expression(e) ==
    LET step(b) == IF b.ok THEN Cons(b, repeat_basic_expression(b.rest)) ELSE Ok(<<>>, e)
    IN  step(basic_expression(e))

subexpression_leading_caret_only(e) ==
    LET exclude(bs) ==
            IF /\ bs.val # <<>>
               /\ \A j \in 2..Len(bs.val) :
                      ~(bs.val[j].t = "Anchor" /\ bs.val[j].anchor = "Start")
            THEN bs ELSE Fail
    IN  exclude(repeat_basic_expression(e))

subexpression(e) ==
    LET exclude(bs) == IF bs.val # <<>> THEN bs ELSE Fail
    IN  exclude(repeat_basic_expression(e))

alternative(e) ==
    LET after(b) == IF b.ok THEN subexpression(b.rest) ELSE Fail
    IN  after(character("|", e))

repeat_alternative(e) ==
    LET step(sub) == IF sub.ok THEN Cons(sub, repeat_alternative(sub.rest)) ELSE Ok(<<>>, e)
        bar(b) == IF b.ok THEN step(subexpression(b.rest)) ELSE Ok(<<>>, e)
    IN  bar(character("|", e))

expression(e) ==
    LET first(f) == IF f.ok THEN Cons(f, repeat_alternative(f.rest)) ELSE Fail
    IN  first(subexpression(e))

regex_grammar_prefix(e) == expression(e)

regex_grammar(e) ==
    LET eof(x, at_end) == IF at_end.ok THEN Ok(x.val, at_end.rest) ELSE Fail
        whole(x) == IF x.ok THEN eof(x, end(x.rest)) ELSE Fail
    IN  whole(expression(e))

syntax(expr) ==
    LET result(r) == IF r.ok THEN Some(r.val) ELSE None
    IN  result(regex_grammar(expr))


(***************************************************************************)
(* States and automata.  An automaton is a sequence of states (a state's   *)
(* identity is its index), a start state and an end state.  A state holds  *)
(* its kind, its argument (the token, the predicate or the anchor) and its *)
(* destinations.                                                           *)
(***************************************************************************)
TrivialState == [kind |-> "Trivial", arg |-> <<>>, dest |-> <<>>]

TokenState(token, dest) == [kind |-> "Token", arg |-> <<token>>, dest |-> <<dest>>]

LambdaState(lambda, dest) == [kind |-> "Lambda", arg |-> lambda, dest |-> <<dest>>]

AnchorState(a, dest) == [kind |-> "Anchor", arg |-> <<a>>, dest |-> <<dest>>]

push(states, id, state) == [states EXCEPT ![id].dest = Append(@, state)]

Shift(states, k) ==
    [i \in DOMAIN states |->
        [states[i] EXCEPT !.dest = [j \in DOMAIN states[i].dest |-> states[i].dest[j] + k]]]

from_token(token) == [states |-> <<TrivialState, TokenState(token, 1)>>, start |-> 2, end |-> 1]

from_lambda(lambda) == [states |-> <<TrivialState, LambdaState(lambda, 1)>>, start |-> 2, end |-> 1]

from_anchor(a) == [states |-> <<TrivialState, AnchorState(a, 1)>>, start |-> 2, end |-> 1]

push_to_end(self, state) == [self EXCEPT !.states = push(@, self.end, state)]

Join(self, other) == self.states \o Shift(other.states, Len(self.states))

concat(self, other) ==
    LET n == Len(self.states)
        joined == [self EXCEPT !.states = Join(self, other)]
    IN  [push_to_end(joined, other.start + n) EXCEPT !.end = other.end + n]

or_without_other(self, other) ==
    LET n == Len(self.states)
        m == n + Len(other.states)
        start == m + 1
        endS == m + 2
        all == Join(self, other) \o <<TrivialState, TrivialState>>
        s1 == push(all, start, self.start)
        s2 == push(push(s1, self.end, endS), other.end + n, endS)
    IN  [states |-> s2, start |-> start, end |-> endS]

or(self, other) ==
    LET n == Len(self.states)
        m == n + Len(other.states)
        start == m + 1
        endS == m + 2
        all == Join(self, other) \o <<TrivialState, TrivialState>>
        s1 == push(push(all, start, self.start), start, other.start + n)
        s2 == push(push(s1, self.end, endS), other.end + n, endS)
    IN  [states |-> s2, start |-> start, end |-> endS]

closure(self) ==
    LET n == Len(self.states)
        start == n + 1
        endS == n + 2
        all == self.states \o <<TrivialState, TrivialState>>
        s1 == push(push(all, start, self.start), start, endS)
        s2 == push(push(s1, self.end, self.start), self.end, endS)
    IN  [states |-> s2, start |-> start, end |-> endS]

optional_without_exit(self) ==
    LET n == Len(self.states)
        start == n + 1
        endS == n + 2
        all == self.states \o <<TrivialState, TrivialState>>
        s1 == push(push(all, start, self.start), start, endS)
    IN  [states |-> s1, start |-> start, end |-> endS]

optional(self) ==
    LET n == Len(self.states)
        start == n + 1
        endS == n + 2
        all == self.states \o <<TrivialState, TrivialState>>
        s1 == push(push(all, start, self.start), start, endS)
        s2 == push(s1, self.end, endS)
    IN  [states |-> s2, start |-> start, end |-> endS]

plus(self) ==
    LET n == Len(self.states)
        start == n + 1
        endS == n + 2
        all == self.states \o <<TrivialState, TrivialState>>
        s1 == push(all, start, self.start)
        s2 == push(push(s1, self.end, self.start), self.end, endS)
    IN  [states |-> s2, start |-> start, end |-> endS]

(***************************************************************************)
(* The compiler from the syntax tree to an automaton.                      *)
(***************************************************************************)
Err == [ok |-> FALSE]

OkA(a) == [ok |-> TRUE, a |-> a]

Combine(f, a, b) == IF f = "or" THEN or(a, b) ELSE concat(a, b)

RECURSIVE FoldFrom(_, _, _)
FoldFrom(acc, it, f) ==
    IF it = <<>> THEN acc
    ELSE FoldFrom(IF acc.ok /\ Head(it).ok THEN OkA(Combine(f, acc.a, Head(it).a)) ELSE Err,
                  Tail(it), f)

fold(it, f) == IF it = <<>> THEN Err ELSE FoldFrom(Head(it), Tail(it), f)

compile_char(c) == OkA(from_token(c))

compile_character_class(cc) == OkA(from_lambda(<<cc>>))

compile_character_range(lo, hi) == OkA(from_lambda(<<"Range", lo, hi>>))

compile_character_group_item(item) ==
    IF item.t = "CharacterClass" THEN compile_character_class(item.cc)
    ELSE IF item.t = "CharacterRange" THEN compile_character_range(item.lo, item.hi)
    ELSE compile_char(item.c)

compile_character_group(items) ==
    fold([i \in DOMAIN items |-> compile_character_group_item(items[i])], "or")

compile_match(m) ==
    IF m.t = "Any" THEN OkA(from_lambda(<<"Any">>))
    ELSE IF m.t = "CharacterClass" THEN compile_character_class(m.cc)
    ELSE IF m.t = "CharacterGroup" THEN compile_character_group(m.items)
    ELSE compile_char(m.c)

compile_anchor(a) == OkA(from_anchor(a))

Copies(n, r) == [i \in 1..n |-> r]

MapRequired(it) == it

MapOptional(it) == [i \in DOMAIN it |-> IF it[i].ok THEN OkA(optional(it[i].a)) ELSE Err]

RECURSIVE compile_expression(_)
RECURSIVE compile_subexpression(_)
RECURSIVE compile_basic_expression(_)
RECURSIVE compile_quantified(_)
RECURSIVE compile_quantifiable(_)
RECURSIVE compile_group(_)

compile_group(g) == compile_expression(g.expr)

compile_quantifiable_any_backreference(q) ==
    IF q.t = "Group" THEN compile_group(q.g)
    ELSE IF q.t = "Match" THEN compile_match(q.m)
    ELSE OkA(from_lambda(<<"Any">>))

compile_quantifiable(q) ==
    IF q.t = "Group" THEN compile_group(q.g)
    ELSE IF q.t = "Match" THEN compile_match(q.m)
    ELSE Err

compile_quantified(qd) ==
    LET make == compile_quantifiable(qd[1])
        quant == qd[2]
    IN  IF ~quant.some THEN make
        ELSE IF quant.val.t = "ZeroOrMore" THEN (IF make.ok THEN OkA(closure(make.a)) ELSE Err)
        ELSE IF quant.val.t = "OneOrMore" THEN (IF make.ok THEN OkA(plus(make.a)) ELSE Err)
        ELSE IF quant.val.t = "ZeroOrOne" THEN (IF make.ok THEN OkA(optional(make.a)) ELSE Err)
        ELSE LET lower == quant.val.lower
                 maybe_upper == quant.val.upper
                 lower_autos == Copies(lower, make)
                 upper == IF maybe_upper.some
                          THEN MapOptional(Copies(IF maybe_upper.val > lower
                                                  THEN maybe_upper.val - lower ELSE 0, make))
                          ELSE <<IF make.ok THEN OkA(closure(make.a)) ELSE Err>>
             IN  fold(lower_autos \o upper, "concat")

compile_basic_expression(b) ==
    IF b.t = "Anchor" THEN compile_anchor(b.anchor) ELSE compile_quantified(b.q)

compile_subexpression(sub) ==
    fold([i \in DOMAIN sub |-> compile_basic_expression(sub[i])], "concat")

compile_expression(x) ==
    fold([i \in DOMAIN x |-> compile_subexpression(x[i])], "or")

parse(expr) ==
    LET s == syntax(expr)
    IN  IF s.some THEN compile_expression(s.val) ELSE Err


(***************************************************************************)
(* The states' epsilon and consuming transitions.                          *)
(***************************************************************************)
CodePoints ==
    <<"NUL", "TAB", "LF", "VT", "FF", "CR", " ", "$", "(", ")", "*", "+", ",", "-", ".",
      "0", "1", "2", "3", "4", "5", "6", "7", "8", "9", ":", "?", "B", "W", "[", "\\", "]",
      "^", "a", "b", "c", "d", "w", "{", "|", "}", "eacute">>

CodePoint(c) == CHOOSE i \in DOMAIN CodePoints : CodePoints[i] = c

ApplyLambda(lambda, c) ==
    IF lambda[1] = "Any" THEN TRUE
    ELSE IF lambda[1] = "Alphanumeric" THEN IsAsciiAlphanumeric(c)
    ELSE IF lambda[1] = "NotAlphanumeric" THEN ~IsAsciiAlphanumeric(c)
    ELSE IF lambda[1] = "Digit" THEN IsAsciiDigit(c)
    ELSE IF lambda[1] = "NotDigit" THEN ~IsAsciiDigit(c)
    ELSE IF lambda[1] = "Whitespace" THEN IsAsciiWhitespace(c)
    ELSE IF lambda[1] = "NotWhitespace" THEN ~IsAsciiWhitespace(c)
    ELSE CodePoint(lambda[2]) <= CodePoint(c) /\ CodePoint(c) <= CodePoint(lambda[3])

anchor_epsilon(state, anchors) ==
    IF \E i \in DOMAIN anchors : anchors[i] = state.arg[1] THEN state.dest ELSE <<>>

epsilon(state, anchors) ==
    IF state.kind = "Trivial" THEN state.dest
    ELSE IF state.kind = "Anchor" THEN anchor_epsilon(state, anchors)
    ELSE <<>>

transition(state, token) ==
    IF state.kind = "Token" /\ state.arg[1] = token THEN Some(state.dest[1])
    ELSE IF state.kind = "Lambda" /\ ApplyLambda(state.arg, token) THEN Some(state.dest[1])
    ELSE None

(***************************************************************************)
(* The anchor-aware epsilon closure.                                       *)
(***************************************************************************)
RECURSIVE traverse_epsilons(_, _, _, _)
RECURSIVE TraverseCandidates(_, _, _, _)

traverse_epsilons(nfa, acc, state, anchors) ==
    LET reachables == epsilon(nfa.states[state], anchors)
        acc1 == IF reachables = <<>>
                THEN [acc EXCEPT !.destinations = Append(@, state)]
                ELSE acc
    IN  TraverseCandidates(nfa, acc1, reachables, anchors)

RECURSIVE TraverseCandidatesBreak(_, _, _, _)
TraverseCandidatesBreak(nfa, acc, candidates, anchors) ==
    IF candidates = <<>> THEN acc
    ELSE IF Head(candidates) \in acc.visited_states THEN acc
    ELSE TraverseCandidatesBreak(
             nfa,
             traverse_epsilons(nfa, [acc EXCEPT !.visited_states = @ \cup {Head(candidates)}],
                               Head(candidates), anchors),
             Tail(candidates), anchors)

TraverseCandidates(nfa, acc, candidates, anchors) ==
    IF candidates = <<>> THEN acc
    ELSE IF Head(candidates) \in acc.visited_states
         THEN TraverseCandidates(nfa, acc, Tail(candidates), anchors)
    ELSE TraverseCandidates(
             nfa,
             traverse_epsilons(nfa, [acc EXCEPT !.visited_states = @ \cup {Head(candidates)}],
                               Head(candidates), anchors),
             Tail(candidates), anchors)

RECURSIVE ExhaustFrom(_, _, _, _)
ExhaustFrom(nfa, acc, states, anchors) ==
    IF states = <<>> THEN acc
    ELSE ExhaustFrom(nfa, traverse_epsilons(nfa, acc, Head(states), anchors), Tail(states), anchors)

exhaust_epsilons(nfa, states, anchors) ==
    ExhaustFrom(nfa, [destinations |-> <<>>, visited_states |-> {}], states, anchors).destinations

(***************************************************************************)
(* The stream of transition events of an input: a boundary (Epsilon) with  *)
(* its anchors before every character and after the last one.             *)
(***************************************************************************)
transition_iter(expr) == [it |-> expr, current |-> None, index |-> 0]

get_anchors_start_everywhere(index, current, next) ==
    LET anchors ==
            IF current.some /\ next.some
            THEN <<"Start">> \o (IF IsAlphanumeric(current.val) # IsAlphanumeric(next.val)
                                 THEN <<"WordBoundary">> ELSE <<>>)
            ELSE <<"Start">> \o (IF ~next.some THEN <<"End">> ELSE <<>>) \o <<"WordBoundary">>
    IN  [t |-> "Epsilon", r |-> index, anchors |-> anchors]

get_anchors_end_everywhere(index, current, next) ==
    LET anchors ==
            IF current.some /\ next.some
            THEN <<"End">> \o (IF IsAlphanumeric(current.val) # IsAlphanumeric(next.val)
                               THEN <<"WordBoundary">> ELSE <<>>)
            ELSE (IF ~current.some THEN <<"Start">> ELSE <<>>) \o <<"End", "WordBoundary">>
    IN  [t |-> "Epsilon", r |-> index, anchors |-> anchors]

get_anchors_bare_ends(index, current, next) ==
    LET anchors ==
            IF current.some /\ next.some
            THEN (IF IsAlphanumeric(current.val) # IsAlphanumeric(next.val)
                  THEN <<"WordBoundary">> ELSE <<>>)
            ELSE (IF ~current.some THEN <<"Start">> ELSE <<>>)
                 \o (IF ~next.some THEN <<"End">> ELSE <<>>)
    IN  [t |-> "Epsilon", r |-> index, anchors |-> anchors]

get_anchors(index, current, next) ==
    LET anchors ==
            IF current.some /\ next.some
            THEN (IF IsAlphanumeric(current.val) # IsAlphanumeric(next.val)
                  THEN <<"WordBoundary">> ELSE <<>>)
            ELSE (IF ~current.some THEN <<"Start">> ELSE <<>>)
                 \o (IF ~next.some THEN <<"End">> ELSE <<>>)
                 \o <<"WordBoundary">>
    IN  [t |-> "Epsilon", r |-> index, anchors |-> anchors]

TransitionIterNext(self) ==
    LET return_char == self.index % 2 = 1
        index == self.index + 1
    IN  IF return_char
        THEN [item |-> IF self.current.some
                       THEN Some([t |-> "Char", c |-> self.current.val])
                       ELSE None,
              iter |-> [self EXCEPT !.index = index]]
        ELSE LET next == IF self.it = <<>> THEN None ELSE Some(Head(self.it))
             IN  [item |-> Some(get_anchors(index \div 2, self.current, next)),
                  iter |-> [it |-> IF self.it = <<>> THEN <<>> ELSE Tail(self.it),
                            current |-> next,
                            index |-> index]]

(***************************************************************************)
(* The simulation.  A frontier is the best match end found so far and the  *)
(* active states of the matches that start at the frontier's boundary.     *)
(***************************************************************************)
RECURSIVE FilterMapTransition(_, _, _)
FilterMapTransition(nfa, states, c) ==
    IF states = <<>> THEN <<>>
    ELSE LET tr == transition(nfa.states[Head(states)], c)
         IN  (IF tr.some THEN <<tr.val>> ELSE <<>>) \o FilterMapTransition(nfa, Tail(states), c)

CharEventPruning(nfa, current_states, c) ==
    SelectSeq([i \in DOMAIN current_states |->
                  [current_states[i] EXCEPT !.states = FilterMapTransition(nfa, @, c)]],
              LAMBDA f : f.states # <<>>)

CharEvent(nfa, current_states, c) ==
    [i \in DOMAIN current_states |->
        [current_states[i] EXCEPT !.states = FilterMapTransition(nfa, @, c)]]

Contains(seq, x) == \E i \in DOMAIN seq : seq[i] = x

EpsilonEventFirstEnd(nfa, current_states, r, anchors) ==
    LET pushed == Append(current_states, [match_r |-> None, states |-> <<nfa.start>>])
    IN  [i \in DOMAIN pushed |->
            LET states == exhaust_epsilons(nfa, pushed[i].states, anchors)
            IN  [match_r |-> IF Contains(states, nfa.end) /\ ~pushed[i].match_r.some
                             THEN Some(r) ELSE pushed[i].match_r,
                 states |-> states]]

EpsilonEvent(nfa, current_states, r, anchors) ==
    LET pushed == Append(current_states, [match_r |-> None, states |-> <<nfa.start>>])
    IN  [i \in DOMAIN pushed |->
            LET states == exhaust_epsilons(nfa, pushed[i].states, anchors)
            IN  [match_r |-> IF Contains(states, nfa.end) THEN Some(r) ELSE pushed[i].match_r,
                 states |-> states]]

RECURSIVE SearchLoop(_, _, _)
SearchLoop(nfa, iter, current_states) ==
    LET n == TransitionIterNext(iter)
    IN  IF ~n.item.some THEN current_states
        ELSE SearchLoop(nfa, n.iter,
                        IF n.item.val.t = "Char"
                        THEN CharEvent(nfa, current_states, n.item.val.c)
                        ELSE EpsilonEvent(nfa, current_states, n.item.val.r, n.item.val.anchors))

RECURSIVE Matches(_, _)
Matches(current_states, l) ==
    IF l >= Len(current_states) THEN <<>>
    ELSE (IF current_states[l + 1].match_r.some
          THEN <<[left |-> l, right |-> current_states[l + 1].match_r.val]>>
          ELSE <<>>) \o Matches(current_states, l + 1)

(***************************************************************************)
(* Strings are UTF-8: slicing by an index that is not a character boundary *)
(* panics.                                                                 *)
(***************************************************************************)
RECURSIVE Bytes(_)
Bytes(expr) == IF expr = <<>> THEN <<>> ELSE Utf8(Head(expr)) \o Bytes(Tail(expr))

Continuation == {"A9"}

IsCharBoundary(bytes, i) ==
    \/ i = 0
    \/ i = Len(bytes)
    \/ i < Len(bytes) /\ bytes[i + 1] \notin Continuation

AdmitForwardProgressOnly(results_rightmost, left, right) ==
    IF results_rightmost.some THEN results_rightmost.val < right ELSE TRUE

AdmitDisjointOnly(results_rightmost, left, right) ==
    IF results_rightmost.some THEN results_rightmost.val <= left ELSE TRUE

Admit(results_rightmost, left, right) ==
    IF results_rightmost.some
    THEN results_rightmost.val <= left /\ results_rightmost.val < right
    ELSE TRUE

RECURSIVE Assemble(_, _, _)
Assemble(bytes, matches, acc) ==
    IF matches = <<>> \/ acc.panic THEN acc
    ELSE LET left == Head(matches).left
             right == Head(matches).right
         IN  IF Admit(acc.results_rightmost, left, right)
             THEN IF IsCharBoundary(bytes, left) /\ IsCharBoundary(bytes, right)
                  THEN Assemble(bytes, Tail(matches),
                                [acc EXCEPT !.results = Append(@, [str |-> SubSeq(bytes, left + 1, right),
                                                                   left |-> left, right |-> right]),
                                            !.results_rightmost = Some(right)])
                  ELSE [acc EXCEPT !.panic = TRUE]
             ELSE Assemble(bytes, Tail(matches), acc)

RECURSIVE Rev(_)
Rev(seq) == IF seq = <<>> THEN <<>> ELSE Append(Rev(Tail(seq)), Head(seq))

RECURSIVE MaxByKeyFrom(_, _)
MaxByKeyFrom(best, seq) ==
    IF seq = <<>> THEN best
    ELSE MaxByKeyFrom(IF Len(Head(seq).str) >= Len(best.str) THEN Head(seq) ELSE best, Tail(seq))

MaxByKey(seq) == IF seq = <<>> THEN None ELSE Some(MaxByKeyFrom(Head(seq), Tail(seq)))

GreedyResultLast(results) == MaxByKey(results)

GreedyResult(results) == MaxByKey(Rev(results))

search(nfa, expr) ==
    LET current_states == SearchLoop(nfa, transition_iter(expr), <<>>)
        matches == Matches(current_states, 0)
        out == Assemble(Bytes(expr), matches,
                        [panic |-> FALSE, results |-> <<>>, results_rightmost |-> None])
    IN  [panic |-> out.panic,
         greedy |-> IF out.panic THEN None ELSE GreedyResult(out.results),
         results |-> IF out.panic THEN <<>> ELSE out.results]

greedy_search(nfa, expr) == search(nfa, expr).greedy

global_search(nfa, expr) == search(nfa, expr).results

full_match_any(nfa, expr) == greedy_search(nfa, expr).some

full_match(nfa, expr) ==
    LET matched == greedy_search(nfa, expr)
    IN  IF matched.some THEN Len(matched.val.str) = Len(Bytes(expr)) ELSE FALSE


(***************************************************************************)
(* The regex sources and the inputs the model draws from.                  *)
(***************************************************************************)
SeqsUpTo(S, n) == UNION {[1..k -> S] : k \in 0..n}

SrcAlphabet == {"a", "b", "|", "*", "(", ")", "^", "$"}

InputAlphabet == {"a", "b", "eacute"}

RECURSIVE Decimal(_)
Decimal(n) == IF n < 10 THEN <<Digits[n + 1]>> ELSE Decimal(n \div 10) \o <<Digits[(n % 10) + 1]>>

Quantifiables == {<<"a">>, <<"(", "a", "b", ")">>, <<"(", "a", "|", "b", ")">>}

RangeLU(q, l, u) == q \o <<"{">> \o Decimal(l) \o <<",">> \o Decimal(u) \o <<"}">>

RangeL(q, l) == q \o <<"{">> \o Decimal(l) \o <<",", "}">>

RangeExact(q, l) == q \o <<"{">> \o Decimal(l) \o <<"}">>

RangeSources ==
    {RangeLU(q, l, u) : q \in Quantifiables, l \in 0..MaxRep, u \in 0..MaxRep}
    \cup {RangeL(q[1], q[2]) : q \in Quantifiables \X (0..MaxRep)}
    \cup {RangeExact(q[1], q[2]) : q \in Quantifiables \X (0..MaxRep)}

BackreferenceSources == {<<"\\", Digits[n + 1]>> : n \in 1..9}

ExtraSources ==
    { <<"a", "b", "|", "b", "*">>,
      <<"b", "a", "*">>,
      <<"(", "a", "|", "b", ")", "*">>,
      <<"(", "a", "b", ")", "*">>,
      <<"^", "a", "*", "$">>,
      <<"$", "a", "b">>,
      <<".">>, <<".", "*">>, <<".", "+">>,
      <<"(", "a", "*", ")", "*">>, <<"(", "a", "?", ")", "+">>,
      <<"a", "?", "b", "+">>,
      <<"\\", "1">>, <<"a", "\\", "1">>, <<"(", "\\", "1", ")">>, <<"\\", "1", "*">>,
      <<"a", "|", "\\", "1">>, <<"\\", "2", "{", "0", "}">>,
      <<"a", "|">>, <<"(", "a">>, <<"(", ")">>, <<"a", ")">>, <<"a", "{", "1">>,
      <<"\\", "b", "a">>, <<"[", "a", "-", "b", "]">>, <<"\\", "w">>,
      <<":", "?", "a">>, <<":", "?">>, <<"(", ":", "?", "a", ")">>, <<"(", ":", "a", ")">> }

IdentityQuantifiables ==
    Quantifiables \cup {<<".">>, <<"(", "a", "*", ")">>, <<"(", "^", "a", ")">>, <<"\\", "1">>}

QuantifierIdentities ==
    {<<RangeExact(q, 1), q>> : q \in IdentityQuantifiables}
    \cup {<<RangeL(q, 0), q \o <<"*">> >> : q \in IdentityQuantifiables}
    \cup {<<RangeL(q, 1), q \o <<"+">> >> : q \in IdentityQuantifiables}
    \cup {<<RangeLU(q, 0, 1), q \o <<"?">> >> : q \in IdentityQuantifiables}

IdentitySources == {p[1] : p \in QuantifierIdentities}

AnchorBodies ==
    { <<"a">>, <<"a", "*">>, <<"a", "b">>, <<"b", "+">>, <<"(", "a", "|", "b", ")">>,
      <<"a", "|", "b">>, <<"a", "?", "b">>, <<".">>, <<"(", "a", "b", ")", "*">> }

AnchorSources ==
    {<<"^">> \o r : r \in AnchorBodies} \cup {r \o <<"$">> : r \in AnchorBodies}

BadAnchorSources ==
    { <<"$", "a", "b">>, <<"$", "(", "a", "|", "b", ")">>, <<"$", "b", "+">>, <<"a", "$", "b">>,
      <<"a", "^">>, <<"a", "^", "b">>, <<"a", "+", "^">>, <<"(", "a", "|", "b", ")", "^">>,
      <<"$", "a", "|", "b", "^">>, <<"$", ".">>, <<"a", "*", "b", "^", "a", "*">> }

Metacharacters == SpecialChar \ {"-"}

OtherEscapes == {"q", "z", ":", ",", " ", "eacute"}

EscapeSources ==
    {<<"\\", x>> : x \in SpecialChar \cup {"t", "n", "r", "v", "f", "0"} \cup OtherEscapes}
    \cup {<<"\\">>}

AlternativeBodies ==
    {<<"a">>, <<"b", "*">>, <<"a", "b">>, <<"^", "b">>, <<"(", "a", "|", "b", ")", "+">>}

AlternationSources ==
    {p[1] \o <<"|">> \o p[2] : p \in {q \in AlternativeBodies \X AlternativeBodies : q[1] # q[2]}}

ClassSources == {<<"\\", x>> : x \in {"w", "W", "d", "D", "s", "S"}}

Sources ==
    SeqsUpTo(SrcAlphabet, MaxSrcLen) \cup RangeSources \cup BackreferenceSources \cup ExtraSources
    \cup IdentitySources \cup ClassSources \cup AnchorSources \cup BadAnchorSources
    \cup EscapeSources \cup AlternationSources

AsciiInputAlphabet == {"a", "b"}

ExtraInputs ==
    { <<":">>, <<":", "a">>, <<"a", ":">>, <<":", ":">>, <<"a", ":", ":", "b">>,
      <<"eacute", ":">>, <<":", "a", "b", ":">> }

Inputs ==
    SeqsUpTo(AsciiInputAlphabet, MaxInputLen) \cup SeqsUpTo(InputAlphabet, MaxNonAsciiLen)
    \cup ExtraInputs

(***************************************************************************)
(* The state machine: a regex source is compiled once; the compiled regex  *)
(* then serves any number of full_match, greedy_search and global_search   *)
(* calls.                                                                  *)
(***************************************************************************)
NoCall == [op |-> "none"]

Init ==
    /\ source = <<>>
    /\ ast = None
    /\ regex = [compiled |-> FALSE]
    /\ call = NoCall

compile(expr) ==
    /\ ~regex.compiled
    /\ source' = expr
    /\ ast' = syntax(expr)
    /\ regex' = LET r == parse(expr)
                IN  IF r.ok THEN [compiled |-> TRUE, ok |-> TRUE, a |-> r.a]
                    ELSE [compiled |-> TRUE, ok |-> FALSE]
    /\ call' = NoCall

Outcome(op, expr) ==
    LET out == search(regex.a, expr)
    IN  [op |-> op, input |-> expr, panic |-> out.panic,
         full |-> IF op = "full_match" /\ ~out.panic THEN full_match(regex.a, expr) ELSE FALSE,
         greedy |-> out.greedy, results |-> out.results]

FullMatchMutating(expr) ==
    /\ regex.compiled /\ regex.ok
    /\ call = NoCall
    /\ call' = Outcome("full_match", expr)
    /\ regex' = [regex EXCEPT !.a = push_to_end(@, @.start)]
    /\ UNCHANGED <<source, ast>>

FullMatch(expr) ==
    /\ regex.compiled /\ regex.ok
    /\ call = NoCall
    /\ call' = Outcome("full_match", expr)
    /\ UNCHANGED <<source, ast, regex>>

GreedySearch(expr) ==
    /\ regex.compiled /\ regex.ok
    /\ call = NoCall
    /\ call' = Outcome("greedy_search", expr)
    /\ UNCHANGED <<source, ast, regex>>

GlobalSearch(expr) ==
    /\ regex.compiled /\ regex.ok
    /\ call = NoCall
    /\ call' = Outcome("global_search", expr)
    /\ UNCHANGED <<source, ast, regex>>

DropResult ==
    /\ call # NoCall
    /\ call' = NoCall
    /\ UNCHANGED <<source, ast, regex>>

Next ==
    \/ ~regex.compiled /\ \E expr \in Sources : compile(expr)
    \/ call = NoCall /\ \E expr \in Inputs : FullMatch(expr)
    \/ call = NoCall /\ \E expr \in Inputs : GreedySearch(expr)
    \/ call = NoCall /\ \E expr \in Inputs : GlobalSearch(expr)
    \/ DropResult

Spec == Init /\ [][Next]_vars

(***************************************************************************)
(* The same search, one iteration of its loops at a time: first the loop   *)
(* over the transition events of the input, then the loop over the         *)
(* frontiers that admits the matches, then the return.  The running call   *)
(* keeps the iterator, the frontiers (current_states) and the results.     *)
(***************************************************************************)
SearchStart(expr) ==
    /\ regex.compiled /\ regex.ok
    /\ call = NoCall
    /\ call' = [op |-> "search", pc |-> "events", input |-> expr,
                iter |-> transition_iter(expr), current_states |-> <<>>,
                l |-> 0, results |-> <<>>, results_rightmost |-> None,
                panic |-> FALSE, greedy |-> None]
    /\ UNCHANGED <<source, ast, regex>>

SearchChar ==
    /\ call.op = "search" /\ call.pc = "events"
    /\ LET n == TransitionIterNext(call.iter)
       IN  /\ n.item.some
           /\ n.item.val.t = "Char"
           /\ call' = [call EXCEPT !.iter = n.iter,
                                   !.current_states = CharEvent(regex.a, @, n.item.val.c)]
    /\ UNCHANGED <<source, ast, regex>>

SearchEpsilon ==
    /\ call.op = "search" /\ call.pc = "events"
    /\ LET n == TransitionIterNext(call.iter)
       IN  /\ n.item.some
           /\ n.item.val.t = "Epsilon"
           /\ call' = [call EXCEPT !.iter = n.iter,
                                   !.current_states = EpsilonEvent(regex.a, @, n.item.val.r,
                                                                   n.item.val.anchors)]
    /\ UNCHANGED <<source, ast, regex>>

SearchEventsDone ==
    /\ call.op = "search" /\ call.pc = "events"
    /\ ~TransitionIterNext(call.iter).item.some
    /\ call' = [call EXCEPT !.pc = "matches"]
    /\ UNCHANGED <<source, ast, regex>>

SearchMatch ==
    /\ call.op = "search" /\ call.pc = "matches"
    /\ call.l < Len(call.current_states)
    /\ LET maybe_r == call.current_states[call.l + 1].match_r
           left == call.l
           bytes == Bytes(call.input)
       IN  call' =
             IF maybe_r.some /\ Admit(call.results_rightmost, left, maybe_r.val)
             THEN IF IsCharBoundary(bytes, left) /\ IsCharBoundary(bytes, maybe_r.val)
                  THEN [call EXCEPT !.l = @ + 1,
                                    !.results = Append(@, [str |-> SubSeq(bytes, left + 1, maybe_r.val),
                                                           left |-> left, right |-> maybe_r.val]),
                                    !.results_rightmost = Some(maybe_r.val)]
                  ELSE [call EXCEPT !.pc = "done", !.panic = TRUE, !.results = <<>>]
             ELSE [call EXCEPT !.l = @ + 1]
    /\ UNCHANGED <<source, ast, regex>>

SearchReturn ==
    /\ call.op = "search" /\ call.pc = "matches"
    /\ call.l = Len(call.current_states)
    /\ call' = [call EXCEPT !.pc = "done", !.greedy = GreedyResult(call.results)]
    /\ UNCHANGED <<source, ast, regex>>

SearchNext ==
    \/ ~regex.compiled /\ \E expr \in Sources : compile(expr)
    \/ call = NoCall /\ \E expr \in Inputs : SearchStart(expr)
    \/ SearchChar
    \/ SearchEpsilon
    \/ SearchEventsDone
    \/ SearchMatch
    \/ SearchReturn

SearchSpec == Init /\ [][SearchNext]_vars

(***************************************************************************)
(* The parsers applied on their own.  number runs with the overflow checks *)
(* of the build on (the arithmetic panics) or off (it wraps).              *)
(***************************************************************************)
NumberAlphabet == {"0", "1", "2", "5", "9", "a", "}"}

NumberInputs == SeqsUpTo(NumberAlphabet, MaxDigits)

Number(e, overflow_checks) ==
    /\ source = <<>> /\ call = NoCall
    /\ source' = e
    /\ call' = LET digits == repeat_digit(e).val
                   panic == overflow_checks /\ FoldOverflows(digits, 0)
               IN  [op |-> "number", panic |-> panic,
                    result |-> IF panic THEN Fail ELSE number(e)]
    /\ UNCHANGED <<ast, regex>>

(* repeat, one iteration of its loop at a time, over the parsers that the   *)
(* grammar puts under repeat or one_or_more.                               *)
RepeatParsers == {"basic_expression", "alternative", "character_group_item", "digit"}

ParserInputs == UNION {{SubSeq(src, i, Len(src)) : i \in 1..(Len(src) + 1)} : src \in Sources}

ApplyParser(p, e) ==
    IF p = "basic_expression" THEN basic_expression(e)
    ELSE IF p = "alternative" THEN alternative(e)
    ELSE IF p = "character_group_item" THEN character_group_item(e)
    ELSE digit(e)

RepeatStart(p, e) ==
    /\ source = <<>> /\ call = NoCall
    /\ source' = e
    /\ call' = [op |-> "repeat", parser |-> p, current_expr |-> e, res |-> <<>>,
                returned |-> FALSE]
    /\ UNCHANGED <<ast, regex>>

RepeatStepKeepsExpr ==
    /\ call.op = "repeat" /\ ~call.returned
    /\ LET r == ApplyParser(call.parser, call.current_expr)
       IN  /\ r.ok
           /\ call' = [call EXCEPT !.res = Append(@, r.val)]
    /\ UNCHANGED <<source, ast, regex>>

RepeatStep ==
    /\ call.op = "repeat" /\ ~call.returned
    /\ LET r == ApplyParser(call.parser, call.current_expr)
       IN  /\ r.ok
           /\ call' = [call EXCEPT !.res = Append(@, r.val), !.current_expr = r.rest]
    /\ UNCHANGED <<source, ast, regex>>

RepeatReturn ==
    /\ call.op = "repeat" /\ ~call.returned
    /\ ~ApplyParser(call.parser, call.current_expr).ok
    /\ call' = [call EXCEPT !.returned = TRUE]
    /\ UNCHANGED <<source, ast, regex>>

ParserNext ==
    \/ call = NoCall /\ \E e \in NumberInputs : \E overflow_checks \in BOOLEAN :
                            Number(e, overflow_checks)
    \/ call = NoCall /\ \E p \in RepeatParsers : \E e \in ParserInputs : RepeatStart(p, e)
    \/ RepeatStep
    \/ RepeatReturn

ParserSpec == Init /\ [][ParserNext]_vars

(***************************************************************************)
(* The reference semantics of a syntax tree on an input s: the set of      *)
(* spans <<i, j>>, 0 <= i <= j <= Len(s), counted in characters, such that *)
(* the characters of s between boundary i and boundary j match the node,   *)
(* the anchors being evaluated on the boundaries of s.                     *)
(***************************************************************************)
RefTags(s, i) ==
    (IF i = 0 THEN {"Start", "WordBoundary"} ELSE {})
    \cup (IF i = Len(s) THEN {"End", "WordBoundary"} ELSE {})
    \cup (IF 0 < i /\ i < Len(s) /\ IsAlphanumeric(s[i]) # IsAlphanumeric(s[i + 1])
          THEN {"WordBoundary"} ELSE {})

RefClass(cc, c) ==
    IF cc = "Alphanumeric" THEN IsAsciiAlphanumeric(c)
    ELSE IF cc = "NotAlphanumeric" THEN ~IsAsciiAlphanumeric(c)
    ELSE IF cc = "Digit" THEN IsAsciiDigit(c)
    ELSE IF cc = "NotDigit" THEN ~IsAsciiDigit(c)
    ELSE IF cc = "Whitespace" THEN IsAsciiWhitespace(c)
    ELSE ~IsAsciiWhitespace(c)

RefItem(item, c) ==
    IF item.t = "CharacterClass" THEN RefClass(item.cc, c)
    ELSE IF item.t = "CharacterRange"
         THEN CodePoint(item.lo) <= CodePoint(c) /\ CodePoint(c) <= CodePoint(item.hi)
    ELSE item.c = c

RefMatchesChar(m, c) ==
    IF m.t = "Any" THEN TRUE
    ELSE IF m.t = "CharacterClass" THEN RefClass(m.cc, c)
    ELSE IF m.t = "CharacterGroup" THEN \E i \in DOMAIN m.items : RefItem(m.items[i], c)
    ELSE m.c = c

RefId(n) == {<<i, i>> : i \in 0..n}

RefCompose(A, B) == {<<pq[1][1], pq[2][2]>> : pq \in {x \in A \X B : x[1][2] = x[2][1]}}

RECURSIVE RefPower(_, _, _)
RefPower(A, k, n) == IF k = 0 THEN RefId(n) ELSE RefCompose(RefPower(A, k - 1, n), A)

RefStar(A, n) == UNION {RefPower(A, k, n) : k \in 0..n}

RefQuantify(A, quant, n) ==
    IF ~quant.some THEN A
    ELSE IF quant.val.t = "ZeroOrMore" THEN RefStar(A, n)
    ELSE IF quant.val.t = "OneOrMore" THEN RefCompose(A, RefStar(A, n))
    ELSE IF quant.val.t = "ZeroOrOne" THEN A \cup RefId(n)
    ELSE IF quant.val.upper.some
         THEN UNION {RefPower(A, k, n) : k \in quant.val.lower..quant.val.upper.val}
    ELSE RefCompose(RefPower(A, quant.val.lower, n), RefStar(A, n))

RECURSIVE RefExpression(_, _)
RECURSIVE RefSubExpression(_, _, _)
RECURSIVE RefBasicExpression(_, _)
RECURSIVE RefQuantifiable(_, _)

RefQuantifiable(q, s) ==
    IF q.t = "Group" THEN RefExpression(q.g.expr, s)
    ELSE IF q.t = "Match"
         THEN {<<j - 1, j>> : j \in {k \in 1..Len(s) : RefMatchesChar(q.m, s[k])}}
    ELSE {}

RefBasicExpression(b, s) ==
    IF b.t = "Anchor"
    THEN {<<i, i>> : i \in {k \in 0..Len(s) : b.anchor \in RefTags(s, k)}}
    ELSE RefQuantify(RefQuantifiable(b.q[1], s), b.q[2], Len(s))

RefSubExpression(sub, k, s) ==
    IF k = 0 THEN RefId(Len(s))
    ELSE RefCompose(RefSubExpression(sub, k - 1, s), RefBasicExpression(sub[k], s))

RefExpression(x, s) == UNION {RefSubExpression(x[i], Len(x[i]), s) : i \in DOMAIN x}

InLanguage(x, s) == <<0, Len(s)>> \in RefExpression(x, s)

(***************************************************************************)
(* Properties of the search calls.                                         *)
(***************************************************************************)
Returned == call.op # "none" /\ ~call.panic

AsciiOnly(s) == \A i \in DOMAIN s : s[i] \notin MultiByte

MaxLen(results) ==
    CHOOSE n \in {Len(results[k].str) : k \in DOMAIN results} :
        \A k \in DOMAIN results : Len(results[k].str) <= n

FirstLongest(results) ==
    CHOOSE k \in DOMAIN results :
        /\ Len(results[k].str) = MaxLen(results)
        /\ \A j \in 1..(k - 1) : Len(results[j].str) < MaxLen(results)

(* C1: for every regex that compiles and every input s, full_match is true *)
(* exactly when the whole of s, from position 0 to position |s|, is in the *)
(* language of the regex under the reference semantics.                    *)
C1_FullMatchIsLanguageMembership ==
    (call.op = "full_match" /\ ~call.panic)
        => (call.full <=> InLanguage(ast.val, call.input))

(* C2: greedy_search is None iff global_search is empty; otherwise it is   *)
(* the element of the global_search list of maximum length, and among      *)
(* several of that length the one that occurs first.                       *)
C2_GreedyIsFirstLongest ==
    Returned =>
        IF call.results = <<>> THEN ~call.greedy.some
        ELSE /\ call.greedy.some
             /\ call.greedy.val = call.results[FirstLongest(call.results)]
             /\ \A k \in DOMAIN call.results :
                    Len(call.results[k].str) <= Len(call.greedy.val.str)

(* A search returned two different matches of the maximum length: the      *)
(* greedy result is the first of them.                                     *)
C2_Witness ==
    /\ Returned
    /\ call.greedy.some
    /\ \E j, k \in DOMAIN call.results :
           /\ j < k
           /\ Len(call.results[j].str) = MaxLen(call.results)
           /\ Len(call.results[k].str) = MaxLen(call.results)
           /\ call.results[j].str # call.results[k].str
           /\ call.greedy.val.str = call.results[j].str

(* C3: global_search lists its matches in increasing start order, and each *)
(* returned match starts at or after the end of the one returned before it.*)
C3_GlobalSearchOrderedDisjoint ==
    (call.op = "global_search" /\ ~call.panic) =>
        \A k \in 1..(Len(call.results) - 1) :
            /\ call.results[k].left < call.results[k + 1].left
            /\ call.results[k].right <= call.results[k + 1].left

(* A global search returned several matches after leaving out a candidate  *)
(* that overlapped an admitted one.                                        *)
C3_Witness ==
    /\ call.op = "global_search" /\ ~call.panic
    /\ Len(call.results) >= 2
    /\ LET matches == Matches(SearchLoop(regex.a, transition_iter(call.input), <<>>), 0)
       IN  \E i, j \in DOMAIN matches :
               /\ i < j
               /\ matches[j].left < matches[i].right
               /\ \E k \in DOMAIN call.results : call.results[k].left = matches[i].left
               /\ \A k \in DOMAIN call.results : call.results[k].left # matches[j].left

(* C4: full_match is true iff global_search on the same input contains a   *)
(* match that starts at 0, ends at |s| and equals s.                       *)
C4_FullMatchAgreesWithGlobalSearch ==
    (call.op = "full_match" /\ ~call.panic) =>
        LET all == global_search(regex.a, call.input)
            s == Bytes(call.input)
        IN  call.full <=> \E k \in DOMAIN all :
                              all[k].left = 0 /\ all[k].right = Len(s) /\ all[k].str = s

(* full_match returned true on a non-empty input while global_search on    *)
(* that input returns the whole input as a match.                          *)
C4_Witness ==
    /\ call.op = "full_match" /\ ~call.panic
    /\ call.input # <<>>
    /\ call.full
    /\ \E k \in DOMAIN call.results :
           call.results[k].left = 0 /\ call.results[k].str = Bytes(call.input)

(* C5: every call returns normally, also on inputs with multi-byte         *)
(* characters, and every returned string is exactly the part of the input  *)
(* between the match's start boundary and its end boundary.                *)
C5_SimulationCannotFail ==
    call.op # "none" =>
        /\ ~call.panic
        /\ \A k \in DOMAIN call.results :
               call.results[k].str
                   = Bytes(SubSeq(call.input, call.results[k].left + 1, call.results[k].right))

(* C6: greedy_search returns the longest part of the input that matches    *)
(* the regex, and None only if no part of the input matches.               *)
C6_GreedyIsLongestMatchingSubstring ==
    (call.op = "greedy_search" /\ ~call.panic /\ AsciiOnly(call.input)) =>
        LET spans == RefExpression(ast.val, call.input)
        IN  IF call.greedy.some
            THEN \A sp \in spans : sp[2] - sp[1] <= Len(call.greedy.val.str)
            ELSE spans = {}

(***************************************************************************)
(* The grammar of regex sources as its production rules state it: the set  *)
(* of spans <<i, j>> of a source that a rule derives.                      *)
(***************************************************************************)
GLit(src, S) == {<<k - 1, k>> : k \in {i \in 1..Len(src) : src[i] \in S}}

GNotLit(src, S) == {<<k - 1, k>> : k \in {i \in 1..Len(src) : src[i] \notin S}}

GEsc(src, S) ==
    {<<k - 1, k + 1>> : k \in {i \in 1..(Len(src) - 1) : src[i] = "\\" /\ src[i + 1] \in S}}

GString(src, str) ==
    {<<k, k + Len(str)>> :
        k \in {i \in 0..(Len(src) - Len(str)) : SubSeq(src, i + 1, i + Len(str)) = str}}

GOpt(A, n) == A \cup RefId(n)

GPlus(A, n) == RefCompose(A, RefStar(A, n))

GSeq(A, B, C) == RefCompose(RefCompose(A, B), C)

ControlLetters == {"t", "n", "r", "v", "f", "0"}

GChar(src) == GNotLit(src, SpecialChar) \cup GEsc(src, SpecialChar) \cup GEsc(src, ControlLetters)

GCharacterClass(src) == GEsc(src, {"w", "W", "d", "D", "s", "S"})

GCharacterGroupChar(src) ==
    GNotLit(src, CharGroupSpecial) \cup GEsc(src, CharGroupSpecial) \cup GEsc(src, ControlLetters)

GCharacterRange(src) ==
    GSeq(GCharacterGroupChar(src), GLit(src, {"-"}), GCharacterGroupChar(src))

GCharacterGroupItem(src) ==
    GCharacterClass(src) \cup GCharacterRange(src) \cup GCharacterGroupChar(src)

GCharacterGroup(src) ==
    GSeq(GLit(src, {"["}), GPlus(GCharacterGroupItem(src), Len(src)), GLit(src, {"]"}))

GMatch(src) ==
    GLit(src, {"."}) \cup GCharacterClass(src) \cup GCharacterGroup(src) \cup GChar(src)

GBackreference(src) == GEsc(src, {Digits[n + 1] : n \in 1..9})

GNumber(src) == GPlus(GLit(src, {Digits[i] : i \in DOMAIN Digits}), Len(src))

GRangeQuantifier(src) ==
    LET n == Len(src)
        bounds == RefCompose(GNumber(src),
                             GOpt(RefCompose(GLit(src, {","}), GOpt(GNumber(src), n)), n))
    IN  GSeq(GLit(src, {"{"}), bounds, GLit(src, {"}"}))

GQuantifier(src) == GLit(src, {"*", "+", "?"}) \cup GRangeQuantifier(src)

GAnchor(src) == GLit(src, {"^", "$"}) \cup GEsc(src, {"b", "B"})

RECURSIVE GExpression(_, _)
GExpression(src, depth) ==
    LET n == Len(src)
        open == RefCompose(GLit(src, {"("}), GOpt(GString(src, <<":", "?">>), n))
        grp == IF depth = 0 THEN {}
               ELSE GSeq(open, GExpression(src, depth - 1), GLit(src, {")"}))
        quantifiableS == grp \cup GMatch(src) \cup GBackreference(src)
        quantifiedS == RefCompose(quantifiableS, GOpt(GQuantifier(src), n))
        basic == GAnchor(src) \cup quantifiedS
        sub == GPlus(basic, n)
    IN  RefCompose(sub, RefStar(RefCompose(GLit(src, {"|"}), sub), n))

Derivable(src) == <<0, Len(src)>> \in GExpression(src, Len(src) \div 2)

(***************************************************************************)
(* What a syntax tree contains.                                            *)
(***************************************************************************)
QuantifiedHas(qd, what) ==
    IF what = "Backreference" THEN qd[1].t = "Backreference"
    ELSE /\ qd[2].some
         /\ qd[2].val.t = "Range"
         /\ qd[2].val.upper.some
         /\ qd[2].val.lower > qd[2].val.upper.val

RECURSIVE ExpressionHas(_, _)
ExpressionHas(x, what) ==
    \E i \in DOMAIN x : \E j \in DOMAIN x[i] :
        /\ x[i][j].t = "Quantified"
        /\ \/ QuantifiedHas(x[i][j].q, what)
           \/ x[i][j].q[1].t = "Group" /\ ExpressionHas(x[i][j].q[1].g.expr, what)

HasBackreference(x) == ExpressionHas(x, "Backreference")

HasInvertedRange(x) == ExpressionHas(x, "InvertedRange")

IsRangeQuantified(x) ==
    /\ Len(x) = 1 /\ Len(x[1]) = 1
    /\ x[1][1].t = "Quantified"
    /\ x[1][1].q[2].some
    /\ x[1][1].q[2].val.t = "Range"
    /\ ~HasBackreference(x)
    /\ ~HasInvertedRange(x)

(***************************************************************************)
(* Properties of compile.                                                  *)
(***************************************************************************)
CompileReturned == regex.compiled /\ call = NoCall

(* C7: compile succeeds only if the whole source is derivable from         *)
(* Expression followed by the end of the input; a source of which only a   *)
(* prefix parses yields an error.                                          *)
C7_CompileOnlyWholeSource ==
    (CompileReturned /\ regex.ok) => Derivable(source)

(* compile returned an error for a source of which a proper prefix is an   *)
(* expression.                                                             *)
C7_Witness ==
    /\ CompileReturned
    /\ ~regex.ok
    /\ expression(source).ok
    /\ expression(source).rest # <<>>

(* C8: a backreference parses into Backreference(n), and compile returns   *)
(* an error for every syntax tree that contains a Backreference.           *)
C8_BackreferenceParsesButNeverCompiles ==
    CompileReturned =>
        /\ (ast.some /\ HasBackreference(ast.val)) => ~regex.ok
        /\ \A n \in 1..9 :
               source = <<"\\", Digits[n + 1]>>
                   => ast = Some(<< << [t |-> "Quantified",
                                        q |-> <<[t |-> "Backreference", n |-> n], None>>] >> >>)

(* compile returned an error for a source that parsed into a tree with a   *)
(* Backreference inside a group.                                           *)
C8_Witness ==
    /\ CompileReturned
    /\ ~regex.ok
    /\ ast.some
    /\ HasBackreference(ast.val)
    /\ ast.val[1][1].t = "Quantified"
    /\ ast.val[1][1].q[1].t = "Group"

(* C9: for all bounds l <= u, l = 0 and l = u included, q{l,u} compiles    *)
(* and full-matches exactly the concatenations of k matches of q with      *)
(* l <= k <= u; q{l,} those with k >= l; and q{l} is q{l,l}.               *)
C9_RangeQuantifierCompilesAndCounts ==
    (regex.compiled /\ ast.some /\ IsRangeQuantified(ast.val)) =>
        /\ regex.ok
        /\ (call.op = "full_match" /\ ~call.panic /\ AsciiOnly(call.input))
               => (call.full <=> InLanguage(ast.val, call.input))
        /\ \A q \in Quantifiables : \A l \in 0..MaxRep :
               source = RangeExact(q, l) => ast = syntax(RangeLU(q, l, l))

(* C10: a range quantifier {l,u} with l > u is rejected, so that no        *)
(* compiled syntax tree contains Range(l, Some(u)) with l > u.             *)
C10_InvertedRangeRejected ==
    (CompileReturned /\ ast.some /\ HasInvertedRange(ast.val)) => ~regex.ok

(***************************************************************************)
(* Relations between the results of two regexes on the same input.         *)
(***************************************************************************)
CallAgrees(nfa) ==
    LET same(out) ==
            /\ call.panic = out.panic
            /\ call.greedy = out.greedy
            /\ call.results = out.results
            /\ (call.op = "full_match" /\ ~out.panic) => (call.full = full_match(nfa, call.input))
    IN  same(search(nfa, call.input))

SameBehaviour(other) ==
    /\ regex.ok = other.ok
    /\ call.op # "none" => CallAgrees(other.a)

(* C11: for every quantifiable a, the pairs a{1} and a, a{0,} and a*,      *)
(* a{1,} and a+, a{0,1} and a? compile alike and give equal results for    *)
(* full_match, greedy_search and global_search on every input.             *)
C11_QuantifierIdentities ==
    \A p \in QuantifierIdentities :
        (regex.compiled /\ source = p[1]) => SameBehaviour(parse(p[2]))

(* A global search with a{1,} returned several matches of different       *)
(* lengths, the same as with a+.                                           *)
C11_Witness ==
    /\ source = RangeL(<<"a">>, 1)
    /\ call.op = "global_search" /\ ~call.panic
    /\ \E j, k \in DOMAIN call.results : Len(call.results[j].str) < Len(call.results[k].str)
    /\ call.results = global_search(parse(<<"a", "+">>).a, call.input)

Grouped(r) == <<"(">> \o r \o <<")">>

(* C12: for every source r that compiles, the source ( r ) compiles too,   *)
(* and full_match, greedy_search and global_search give identical results  *)
(* for ( r ) and for r on every input.                                     *)
C12_GroupTransparency ==
    (regex.compiled /\ regex.ok) => SameBehaviour(parse(Grouped(source)))

(***************************************************************************)
(* Properties of the character classes.                                    *)
(***************************************************************************)
ClassChars ==
    {"a", "d", "w", "B", "W", "0", "5", "9", "TAB", "LF", "VT", "FF", "CR", " ", "NUL",
     "$", ":", "eacute"}

Accepts(nfa, c) ==
    Contains(Matches(SearchLoop(nfa, transition_iter(<<c>>), <<>>), 0), [left |-> 0, right |-> 1])

ClaimedClass(x, c) ==
    IF x = "w" THEN c \in AsciiLetters \/ IsAsciiDigit(c)
    ELSE IF x = "W" THEN ~(c \in AsciiLetters \/ IsAsciiDigit(c))
    ELSE IF x = "d" THEN IsAsciiDigit(c)
    ELSE IF x = "D" THEN ~IsAsciiDigit(c)
    ELSE IF x = "s" THEN c \in {"TAB", "LF", "VT", "FF", "CR", " "}
    ELSE c \notin {"TAB", "LF", "VT", "FF", "CR", " "}

(* C13: \w accepts exactly the ASCII letters and digits, \d exactly the    *)
(* ASCII digits, \s exactly tab, newline, vertical tab, form feed,         *)
(* carriage return and space; \W, \D and \S accept exactly the            *)
(* complements, every non-ASCII character included.                        *)
C13_CharacterClassesOverAscii ==
    \A x \in {"w", "W", "d", "D", "s", "S"} :
        (CompileReturned /\ source = <<"\\", x>>) =>
            /\ regex.ok
            /\ \A c \in ClassChars : Accepts(regex.a, c) <=> ClaimedClass(x, c)

(***************************************************************************)
(* Properties of the anchors.                                              *)
(***************************************************************************)
StartAnchored(x) ==
    Len(x) = 1 /\ x[1][1].t = "Anchor" /\ x[1][1].anchor = "Start"

EndAnchored(x) ==
    Len(x) = 1 /\ x[1][Len(x[1])].t = "Anchor" /\ x[1][Len(x[1])].anchor = "End"

BoundaryTags(s, r) ==
    get_anchors(r, IF r = 0 THEN None ELSE Some(s[r]),
                IF r = Len(s) THEN None ELSE Some(s[r + 1])).anchors

(* C14: for a regex ^R every match that greedy_search or global_search     *)
(* reports starts at boundary 0 of the input, for a regex R$ every         *)
(* reported match ends at boundary |s|, and a Start or End anchor state    *)
(* lets the simulation through only at a boundary tagged with that anchor. *)
C14_AnchorsGatePositions ==
    (Returned /\ call.op \in {"greedy_search", "global_search"}) =>
        /\ StartAnchored(ast.val) =>
               /\ \A k \in DOMAIN call.results : call.results[k].left = 0
               /\ call.greedy.some => call.greedy.val.left = 0
        /\ EndAnchored(ast.val) =>
               /\ \A k \in DOMAIN call.results : call.results[k].right = Len(call.input)
               /\ call.greedy.some => call.greedy.val.right = Len(call.input)
        /\ \A i \in DOMAIN regex.a.states : \A r \in 0..Len(call.input) :
               (/\ regex.a.states[i].kind = "Anchor"
                /\ regex.a.states[i].arg[1] \in {"Start", "End"}
                /\ epsilon(regex.a.states[i], BoundaryTags(call.input, r)) # <<>>)
                   => Contains(BoundaryTags(call.input, r), regex.a.states[i].arg[1])

(* A global search with a regex ^R reported a match at boundary 0 on an    *)
(* input on which R alone matches more than once.                          *)
C14_Witness ==
    /\ Returned /\ call.op = "global_search"
    /\ StartAnchored(ast.val)
    /\ Len(call.results) = 1
    /\ call.results[1].left = 0
    /\ Len(global_search(parse(Tail(source)).a, call.input)) > 1

(***************************************************************************)
(* A basic expression consumes when every match of it holds at least one   *)
(* character.                                                              *)
(***************************************************************************)
RECURSIVE Consumes(_)
Consumes(b) ==
    /\ b.t = "Quantified"
    /\ \/ ~b.q[2].some
       \/ b.q[2].val.t = "OneOrMore"
       \/ b.q[2].val.t = "Range" /\ b.q[2].val.lower >= 1
    /\ \/ b.q[1].t = "Match"
       \/ /\ b.q[1].t = "Group"
          /\ \A i \in DOMAIN b.q[1].g.expr :
                 \E j \in DOMAIN b.q[1].g.expr[i] : Consumes(b.q[1].g.expr[i][j])

BadAnchor(sub) ==
    \E j \in DOMAIN sub :
        /\ sub[j].t = "Anchor"
        /\ \/ sub[j].anchor = "End" /\ \E k \in (j + 1)..Len(sub) : Consumes(sub[k])
           \/ sub[j].anchor = "Start" /\ \E k \in 1..(j - 1) : Consumes(sub[k])

Unsatisfiable(x) == \A i \in DOMAIN x : BadAnchor(x[i])

(* C15: a regex in which an End anchor must be followed by a consumed      *)
(* character, or a Start anchor preceded by one, compiles, and on every    *)
(* input full_match is false, greedy_search is None and global_search is   *)
(* empty.                                                                  *)
C15_UnsatisfiableAnchorMatchesNothing ==
    (regex.compiled /\ ast.some /\ Unsatisfiable(ast.val)) =>
        /\ regex.ok
        /\ call.op # "none" =>
               /\ ~call.panic
               /\ ~call.full
               /\ ~call.greedy.some
               /\ call.results = <<>>

(* A global search with $ab returned nothing on an input in which ab       *)
(* occurs.                                                                 *)
C15_Witness ==
    /\ source = <<"$", "a", "b">>
    /\ Unsatisfiable(ast.val)
    /\ call.op = "global_search" /\ ~call.panic
    /\ call.results = <<>>
    /\ global_search(parse(<<"a", "b">>).a, call.input) # <<>>

(***************************************************************************)
(* The events the simulator draws from an input.                           *)
(***************************************************************************)
RECURSIVE Events(_)
Events(iter) ==
    LET rest(n) == IF n.item.some THEN <<n.item.val>> \o Events(n.iter) ELSE <<>>
    IN  rest(TransitionIterNext(iter))

TagSet(anchors) == {anchors[i] : i \in DOMAIN anchors}

(* C16: for an input of n characters the simulator computes the tags       *)
(* {Start, WordBoundary} for boundary 0, {End, WordBoundary} for boundary  *)
(* n, and for a boundary between the characters p and q {WordBoundary} if  *)
(* exactly one of p and q is alphanumeric and no tag otherwise; the single *)
(* boundary of the empty input carries {Start, End, WordBoundary}.         *)
C16_PositionTags ==
    call.op # "none" =>
        LET s == call.input
            ev == Events(transition_iter(s))
        IN  /\ Len(ev) = 2 * Len(s) + 1
            /\ \A k \in 1..Len(s) : ev[2 * k] = [t |-> "Char", c |-> s[k]]
            /\ \A r \in 0..Len(s) :
                   /\ ev[2 * r + 1].t = "Epsilon"
                   /\ ev[2 * r + 1].r = r
                   /\ TagSet(ev[2 * r + 1].anchors)
                          = IF r = 0 /\ Len(s) = 0 THEN {"Start", "End", "WordBoundary"}
                            ELSE IF r = 0 THEN {"Start", "WordBoundary"}
                            ELSE IF r = Len(s) THEN {"End", "WordBoundary"}
                            ELSE IF IsAlphanumeric(s[r]) # IsAlphanumeric(s[r + 1])
                                 THEN {"WordBoundary"}
                            ELSE {}

(* A call on an input that begins and ends with a character that is not    *)
(* alphanumeric and has inner boundaries with and without a word boundary. *)
C16_Witness ==
    /\ call.op # "none"
    /\ Len(call.input) >= 3
    /\ ~IsAlphanumeric(call.input[1])
    /\ ~IsAlphanumeric(call.input[Len(call.input)])
    /\ LET ev == Events(transition_iter(call.input))
       IN  /\ \E r \in 1..(Len(call.input) - 1) : ev[2 * r + 1].anchors = <<"WordBoundary">>
           /\ \E r \in 1..(Len(call.input) - 1) : ev[2 * r + 1].anchors = <<>>
           /\ ev[1].anchors = <<"Start", "WordBoundary">>

(***************************************************************************)
(* Where the carets of a source stand.                                     *)
(***************************************************************************)
PlainSource(src) == \A i \in DOMAIN src : src[i] \notin {"\\", "[", "]"}

MisplacedCaret(src) ==
    \E i \in 2..Len(src) : src[i] = "^" /\ src[i - 1] \notin {"|", "("}

Front(src) == SubSeq(src, 1, Len(src) - 1)

(* C17: a source in which an unescaped ^ stands elsewhere than at the      *)
(* beginning or directly after | or ( is a parse error: compile returns an *)
(* error for it.                                                           *)
C17_MisplacedCaretIsParseError ==
    (CompileReturned /\ PlainSource(source) /\ MisplacedCaret(source)) => ~regex.ok

(* C17 as amended: ^ is a Start anchor wherever a basic expression may     *)
(* stand, also after another basic expression: for every source r that    *)
(* compiles, the source r^ compiles too, and its tree is the tree of r     *)
(* with a Start anchor added at the end of the last alternative.           *)
C17_CaretIsStartAnchorWhereverItStands ==
    (CompileReturned /\ source # <<>> /\ source[Len(source)] = "^") =>
        LET holds(t) ==
                (t.some /\ compile_expression(t.val).ok) =>
                    /\ regex.ok
                    /\ ast = Some([t.val EXCEPT ![Len(t.val)] =
                                      Append(@, [t |-> "Anchor", anchor |-> "Start"])])
        IN  holds(syntax(Front(source)))

(* compile returned a regex for a source r^ in which r compiles and        *)
(* consumes a character, so that the ^ stands after a consumed character.  *)
C17_Witness ==
    /\ CompileReturned
    /\ regex.ok
    /\ Len(source) >= 2
    /\ source[Len(source)] = "^"
    /\ MisplacedCaret(source)
    /\ parse(Front(source)).ok
    /\ Consumes(ast.val[1][1])
    /\ ast.val[1][Len(ast.val[1])] = [t |-> "Anchor", anchor |-> "Start"]

(***************************************************************************)
(* Properties of the escapes.                                              *)
(***************************************************************************)
EscapeProbeChars ==
    SpecialChar \cup {"TAB", "LF", "CR", "VT", "FF", "NUL", "a", "t", "n", "0", "q", "eacute"}

ControlOf(x) ==
    IF x = "t" THEN "TAB" ELSE IF x = "n" THEN "LF" ELSE IF x = "r" THEN "CR"
    ELSE IF x = "v" THEN "VT" ELSE IF x = "f" THEN "FF" ELSE "NUL"

IsLiteral(c) ==
    /\ regex.ok
    /\ ast = Some(<< << [t |-> "Quantified",
                         q |-> <<[t |-> "Match", m |-> [t |-> "Char", c |-> c]], None>>] >> >>)
    /\ \A d \in EscapeProbeChars : Accepts(regex.a, d) <=> d = c

EscapesHold(literals) ==
    (CompileReturned /\ Len(source) = 2 /\ source[1] = "\\") =>
        IF source[2] \in literals THEN IsLiteral(source[2])
        ELSE IF source[2] \in {"t", "n", "r", "v", "f", "0"} THEN IsLiteral(ControlOf(source[2]))
        ELSE IF source[2] \in {"w", "W", "d", "D", "s", "S", "b", "B"} THEN regex.ok
        ELSE IF source[2] \in {Digits[n + 1] : n \in 1..9} THEN ast.some
        ELSE ~regex.ok

(* C18: for every metacharacter X of ^ $ | * ? + . \ ( ) { } [ ] the       *)
(* source \X parses to the literal X and matches exactly X; \t \n \r \v   *)
(* \f \0 parse to the control characters; every other escape that is no   *)
(* character class, anchor or backreference makes compile fail.            *)
C18_Escapes == EscapesHold(Metacharacters)

(* C18 as amended: the same with the hyphen among the metacharacters, so   *)
(* that \- parses to the literal hyphen and matches exactly the hyphen.    *)
C18_EscapesWithHyphen == EscapesHold(SpecialChar)

(* compile returned a regex for the escaped dot, which accepts the dot and *)
(* does not accept another character.                                      *)
C18_Witness ==
    /\ CompileReturned
    /\ source = <<"\\", ".">>
    /\ regex.ok
    /\ Accepts(regex.a, ".")
    /\ ~Accepts(regex.a, "a")

MonotoneOver(other) ==
    LET matches(out) ==
            /\ (call.op = "full_match" /\ call.full)
                   => (~out.panic /\ full_match(other.a, call.input))
            /\ call.greedy.some => (~out.panic /\ out.greedy.some)
    IN  other.ok => matches(search(other.a, call.input))

(* C19: for every regex r and input s, if ^r matches s then r matches s,   *)
(* and if r$ matches s then r matches s: full_match true implies           *)
(* full_match true, and greedy_search Some implies greedy_search Some.     *)
C19_AnchorMonotonicity ==
    Returned =>
        /\ source[1] = "^" => MonotoneOver(parse(Tail(source)))
        /\ source[Len(source)] = "$" => MonotoneOver(parse(Front(source)))

(***************************************************************************)
(* Properties of the alternation.                                          *)
(***************************************************************************)
Swapped(src, i) == SubSeq(src, i + 1, Len(src)) \o <<"|">> \o SubSeq(src, 1, i - 1)

SameMatchSet(other) ==
    LET same(out) ==
            /\ call.panic = out.panic
            /\ {call.results[k] : k \in DOMAIN call.results}
                   = {out.results[k] : k \in DOMAIN out.results}
            /\ (call.op = "full_match" /\ ~out.panic) => (call.full = full_match(other.a, call.input))
    IN  other.ok /\ same(search(other.a, call.input))

(* C20: for all regexes a and b and every input s, a|b and b|a yield the   *)
(* same full_match result and the same set of global_search matches.       *)
C20_AlternationCommutes ==
    call.op # "none" =>
        \A i \in 2..(Len(source) - 1) :
            (/\ source[i] = "|"
             /\ parse(SubSeq(source, 1, i - 1)).ok
             /\ parse(SubSeq(source, i + 1, Len(source))).ok)
                => SameMatchSet(parse(Swapped(source, i)))

(* A global search with ab|b* returned several different matches, the     *)
(* same as with b*|ab.                                                     *)
C20_Witness ==
    /\ source = <<"a", "b", "|", "b", "*">>
    /\ call.op = "global_search" /\ ~call.panic
    /\ \E j, k \in DOMAIN call.results : call.results[j].str # call.results[k].str
    /\ call.results = global_search(parse(Swapped(source, 3)).a, call.input)

(***************************************************************************)
(* Determinism, immutability, admission and the frontiers of search.       *)
(***************************************************************************)

FreshOutcome(c) ==
    LET fresh == parse(source)
    IN  /\ fresh.ok
        /\ LET out == search(fresh.a, c.input)
           IN  /\ c.panic = out.panic
               /\ c.greedy = out.greedy
               /\ c.results = out.results
               /\ (c.op = "full_match" /\ ~out.panic) => (c.full = full_match(fresh.a, c.input))

SearchRunning == call # NoCall /\ call.op = "search"

SearchAgrees ==
    (SearchRunning /\ call.pc = "done") =>
        LET out == search(regex.a, call.input)
        IN  /\ call.panic = out.panic
            /\ call.results = out.results
            /\ call.greedy = out.greedy

(* C22: walking the frontiers in start-index order, the match [left,right) *)
(* of a frontier whose best end is set is admitted iff no match was        *)
(* admitted before it or the previous admitted end e has e <= left and     *)
(* e < right; a frontier without a best end admits nothing.  An admitted   *)
(* match becomes the last result and the new rightmost end.  Hence an      *)
(* empty match that sits exactly at the previous admitted end is dropped,  *)
(* and an empty match that lies past it adds one empty string.             *)
C22_NonOverlapAdmission ==
    [][(SearchRunning /\ call.pc = "matches" /\ call.l < Len(call.current_states)) =>
         LET maybe_r == call.current_states[call.l + 1].match_r
             left == call.l
             e == call.results_rightmost
             admitted == call'.panic \/ Len(call'.results) = Len(call.results) + 1
         IN  /\ ~maybe_r.some => (~admitted /\ call'.results = call.results)
             /\ maybe_r.some =>
                   LET right == maybe_r.val
                   IN  /\ admitted <=> (~e.some \/ (e.val <= left /\ e.val < right))
                       /\ (admitted /\ ~call'.panic) =>
                             /\ SubSeq(call'.results, 1, Len(call.results)) = call.results
                             /\ call'.results[Len(call'.results)].left = left
                             /\ call'.results[Len(call'.results)].right = right
                             /\ call'.results_rightmost = Some(right)
                       /\ ~admitted =>
                             /\ call'.results = call.results
                             /\ call'.results_rightmost = e
                       /\ (right = left /\ e.some /\ e.val = left) => ~admitted
                       /\ (right = left /\ e.some /\ e.val < left /\ ~call'.panic) =>
                             /\ Len(call'.results) = Len(call.results) + 1
                             /\ call'.results[Len(call'.results)].str = <<>>]_vars

C22_Witness ==
    /\ SearchRunning /\ call.pc = "done" /\ ~call.panic
    /\ source = <<"a", "*">>
    /\ call.input = <<"b", "a", "b", "b">>
    /\ [i \in DOMAIN call.results |-> call.results[i].str] = << <<>>, <<"a">>, <<>>, <<>> >>

(***************************************************************************)
(* Acceptance of a span of the input, by sets of states: the states        *)
(* reachable through epsilon edges at a boundary with the given tags, and  *)
(* the states a character leads to.                                        *)
(***************************************************************************)
EpsilonSucc(nfa, q, tags) ==
    LET state == nfa.states[q]
    IN  IF state.kind = "Trivial" THEN {state.dest[i] : i \in DOMAIN state.dest}
        ELSE IF state.kind = "Anchor" /\ state.arg[1] \in tags THEN {state.dest[1]}
        ELSE {}

RECURSIVE Reach(_, _, _)
Reach(nfa, set, tags) ==
    LET next == set \cup UNION {EpsilonSucc(nfa, q, tags) : q \in set}
    IN  IF next = set THEN set ELSE Reach(nfa, next, tags)

Move(nfa, set, c) ==
    {transition(nfa.states[q], c).val : q \in {p \in set : transition(nfa.states[p], c).some}}

RECURSIVE RunSpan(_, _, _, _, _)
RunSpan(nfa, s, set, k, j) ==
    IF k = j THEN set
    ELSE RunSpan(nfa, s, Reach(nfa, Move(nfa, set, s[k + 1]), RefTags(s, k + 1)), k + 1, j)

AcceptsSpan(nfa, s, i, j) ==
    nfa.end \in RunSpan(nfa, s, Reach(nfa, {nfa.start}, RefTags(s, i)), i, j)

LongestFrom(nfa, s, i) ==
    LET ends == {j \in i..Len(s) : AcceptsSpan(nfa, s, i, j)}
    IN  IF ends = {} THEN None ELSE Some(CHOOSE j \in ends : \A k \in ends : k <= j)

CurrentBoundary == (call.iter.index - 1) \div 2

BestEndsInRange ==
    SearchRunning =>
        \A p \in DOMAIN call.current_states :
            LET m == call.current_states[p].match_r
            IN  m.some => (p - 1 <= m.val /\ m.val <= CurrentBoundary)

(* C23: at every point of the simulation the best end of the frontier      *)
(* seeded at boundary i is unset or a boundary b with i <= b <= the        *)
(* current boundary; once set it is never unset and never decreases; and   *)
(* when the last boundary has been processed it is the largest j for which *)
(* the input from i to j is accepted, and unset when there is no such j.   *)
C23_PerFrontierBestEnd ==
    [][/\ BestEndsInRange'
       /\ (SearchRunning /\ call' # NoCall) =>
              \A p \in DOMAIN call.current_states :
                  call.current_states[p].match_r.some =>
                      /\ p \in DOMAIN call'.current_states
                      /\ call'.current_states[p].match_r.some
                      /\ call'.current_states[p].match_r.val >= call.current_states[p].match_r.val
       /\ (SearchRunning /\ call.pc = "events" /\ call'.pc = "matches") =>
              /\ Len(call.current_states) = Len(call.input) + 1
              /\ \A p \in DOMAIN call.current_states :
                     call.current_states[p].match_r = LongestFrom(regex.a, call.input, p - 1)]_vars

C23_Witness ==
    /\ SearchRunning /\ call.pc = "matches" /\ call.l = 0
    /\ source = <<"a", "b", "|", "b", "*">>
    /\ call.input = <<"a", "b", "b", "a">>
    /\ [p \in DOMAIN call.current_states |-> call.current_states[p].match_r]
           = <<Some(2), Some(3), Some(3), Some(3), Some(4)>>

SeededAt(nfa, s, i, r) ==
    {q \in RunSpan(nfa, s, Reach(nfa, {nfa.start}, RefTags(s, i)), i, r) :
        EpsilonSucc(nfa, q, RefTags(s, r)) = {}}

(* C30: the k-th boundary event (k counted from 0) leaves exactly k+1      *)
(* frontiers, and the frontier at list position i is the one seeded at     *)
(* boundary i: its states are those a run that starts at boundary i has    *)
(* reached.  A character event changes state sets only: the number of      *)
(* frontiers and every best end stay as they are.  A frontier whose state  *)
(* set is empty keeps an empty state set.                                  *)
C30_FrontierBookkeeping ==
    [][(SearchRunning /\ call.pc = "events" /\ call' # NoCall /\ call'.pc = "events") =>
         LET item == TransitionIterNext(call.iter).item.val
             k == call.iter.index \div 2
             before == call.current_states
             after == call'.current_states
         IN  /\ item.t = "Epsilon" =>
                   /\ item.r = k
                   /\ Len(after) = k + 1
                   /\ \A i \in 0..k :
                          {after[i + 1].states[x] : x \in DOMAIN after[i + 1].states}
                              = SeededAt(regex.a, call.input, i, k)
             /\ item.t = "Char" =>
                   /\ Len(after) = Len(before)
                   /\ \A p \in DOMAIN before : after[p].match_r = before[p].match_r
             /\ \A p \in DOMAIN before : before[p].states = <<>> => after[p].states = <<>>]_vars

C30_Witness ==
    /\ SearchRunning /\ call.pc = "events"
    /\ source = <<"a", "b">>
    /\ call.input = <<"b", "a", "b">>
    /\ call.iter.index = 4
    /\ Len(call.current_states) = 2
    /\ call.current_states[1].states = <<>>
    /\ call.current_states[2].states # <<>>
    /\ call.current_states[2].match_r = None

(***************************************************************************)
(* Closure and plus.  The operand A of a regex q* or q+ is the automaton   *)
(* of q; a string is a sequence of traversals of A if it splits into       *)
(* spans that A accepts.                                                   *)
(***************************************************************************)
QuantifiedBy(t) ==
    /\ regex.compiled /\ regex.ok
    /\ Len(ast.val) = 1 /\ Len(ast.val[1]) = 1
    /\ ast.val[1][1].t = "Quantified"
    /\ ast.val[1][1].q[2].some
    /\ ast.val[1][1].q[2].val.t = t

Operand == compile_quantifiable(ast.val[1][1].q[1]).a

RECURSIVE Traversals(_, _, _)
Traversals(A, s, i) ==
    \/ i = Len(s)
    \/ \E j \in (i + 1)..Len(s) : AcceptsSpan(A, s, i, j) /\ Traversals(A, s, j)

OneOrMoreTraversals(A, s) ==
    \E j \in 0..Len(s) : AcceptsSpan(A, s, 0, j) /\ Traversals(A, s, j)

CannotStart(A, s, i) == \A j \in i..Len(s) : ~AcceptsSpan(A, s, i, j)

ClosureHolds ==
    LET s == call.input
    IN  /\ ~call.panic
        /\ call.op = "full_match" => (call.full <=> Traversals(Operand, s, 0))
        /\ \A i \in 0..Len(s) :
               CannotStart(Operand, s, i) =>
                   /\ Contains(Matches(SearchLoop(regex.a, transition_iter(s), <<>>), 0),
                               [left |-> i, right |-> i])
                   /\ (\E k \in DOMAIN call.results :
                           call.results[k].left = i /\ call.results[k].str = <<>>)
                         <=> (\A k \in DOMAIN call.results :
                                 call.results[k].left < i => call.results[k].right < i)

(* C24: closure(A) accepts exactly the sequences of zero or more           *)
(* traversals of A: full_match is true for the empty input and for every   *)
(* concatenation of strings that A accepts, and false for every other      *)
(* input; a search finds the empty match at every position where A cannot  *)
(* start, and reports it unless an earlier reported match reaches that     *)
(* position.                                                               *)
C24_ClosureAcceptsRepetitions ==
    (QuantifiedBy("ZeroOrMore") /\ call # NoCall) => ClosureHolds

PlusHolds ==
    LET s == call.input
    IN  /\ ~call.panic
        /\ call.op = "full_match" => (call.full <=> OneOrMoreTraversals(Operand, s))
        /\ (\A i \in 0..Len(s) : ~AcceptsSpan(Operand, s, i, i)) =>
               /\ (call.op = "full_match" /\ s = <<>>) => ~call.full
               /\ \A k \in DOMAIN call.results : call.results[k].str # <<>>

(* C25: plus(A) requires at least one traversal: full_match is true        *)
(* exactly for the concatenations of one or more strings that A accepts;   *)
(* when A does not accept the empty string, plus(A) rejects the empty      *)
(* input and global_search never reports an empty match.                   *)
C25_PlusRequiresOneTraversal ==
    (QuantifiedBy("OneOrMore") /\ call # NoCall) => PlusHolds

(***************************************************************************)
(* The epsilon closure against reachability.                               *)
(***************************************************************************)
TagLists ==
    { <<>>, <<"Start">>, <<"End">>, <<"WordBoundary">>, <<"Start", "WordBoundary">>,
      <<"End", "WordBoundary">>, <<"Start", "End">>, <<"Start", "End", "WordBoundary">> }

SourceLists(nfa) ==
    {<<>>} \cup {<<q>> : q \in DOMAIN nfa.states}
    \cup {<<p[1], p[2]>> : p \in (DOMAIN nfa.states) \X (DOMAIN nfa.states)}

Elements(seq) == {seq[i] : i \in DOMAIN seq}

HasEpsilonCycle(nfa, tags) ==
    \E q \in DOMAIN nfa.states : q \in Reach(nfa, EpsilonSucc(nfa, q, tags), tags)

StableReachable(nfa, set, tags) ==
    {q \in Reach(nfa, set, tags) : EpsilonSucc(nfa, q, tags) = {}}

(* C26: on every automaton, those with epsilon cycles included, the        *)
(* anchor-aware epsilon closure returns, and what it returns is exactly    *)
(* the set of states that are reachable from the source states through     *)
(* Trivial epsilons and through the Anchor states whose kind is among the  *)
(* tags, and that have no enabled outgoing epsilon; the visited set makes  *)
(* it miss none of them.  This holds of the closure of every list of at    *)
(* most two states under every list of tags, and of every closure that a   *)
(* boundary event of the simulation computes.                              *)
C26_EpsilonClosureIsReachability ==
    /\ []((regex.compiled /\ regex.ok /\ call = NoCall) =>
            \A anchors \in TagLists : \A states \in SourceLists(regex.a) :
                Elements(exhaust_epsilons(regex.a, states, anchors))
                    = StableReachable(regex.a, Elements(states), Elements(anchors)))
    /\ [][(SearchRunning /\ call.pc = "events" /\ call' # NoCall /\ call'.pc = "events"
              /\ TransitionIterNext(call.iter).item.val.t = "Epsilon") =>
             LET anchors == TransitionIterNext(call.iter).item.val.anchors
                 before == call.current_states
                 after == call'.current_states
             IN  \A p \in DOMAIN after :
                     Elements(after[p].states)
                         = StableReachable(regex.a,
                                           IF p \in DOMAIN before THEN Elements(before[p].states)
                                           ELSE {regex.a.start},
                                           Elements(anchors))]_vars

C26_Witness ==
    /\ SearchRunning /\ call.pc = "events"
    /\ source = <<"(", "a", "?", ")", "+">>
    /\ call.input = <<"a", "a">>
    /\ call.iter.index = 3
    /\ HasEpsilonCycle(regex.a, {})
    /\ regex.a.end \in Elements(call.current_states[1].states)
    /\ \E q \in Elements(call.current_states[1].states) : regex.a.states[q].kind = "Token"

(***************************************************************************)
(* The number parser.                                                      *)
(***************************************************************************)
RECURSIVE DigitPrefix(_)
DigitPrefix(e) ==
    IF e # <<>> /\ IsAsciiDigit(Head(e)) THEN <<Head(e)>> \o DigitPrefix(Tail(e)) ELSE <<>>

RECURSIVE Denoted(_)
Denoted(ds) ==
    IF ds = <<>> THEN 0 ELSE Denoted(SubSeq(ds, 1, Len(ds) - 1)) * 10 + ToDigit(ds[Len(ds)])

(* C27: number applied to an input that begins with one or more decimal    *)
(* digits returns the integer that the maximal digit prefix denotes and    *)
(* the input after the prefix, whatever the length of the prefix, also     *)
(* when the value exceeds the width of the integer it is accumulated in;   *)
(* applied to an input that does not begin with a digit it fails.          *)
C27_NumberIsTheDenotedInteger ==
    (call # NoCall /\ call.op = "number") =>
        LET prefix == DigitPrefix(source)
        IN  /\ ~call.panic
            /\ call.result = IF prefix = <<>> THEN Fail
                              ELSE Ok(Denoted(prefix), SubSeq(source, Len(prefix) + 1, Len(source)))

(***************************************************************************)
(* Termination of the parser.                                              *)
(***************************************************************************)
Repeating == call # NoCall /\ call.op = "repeat"

ConsumesOnSuccess(p, e) ==
    LET shorter(r) == r.ok => Len(r.rest) < Len(e)
        inner(g) ==
            g.ok =>
                /\ e # <<>> /\ Head(e) = "("
                /\ \E k \in {1, 3} :
                       /\ k < Len(e)
                       /\ expression(SubSeq(e, k + 1, Len(e))).ok
                       /\ expression(SubSeq(e, k + 1, Len(e))).val = g.val.expr
    IN  /\ shorter(ApplyParser(p, e))
        /\ p = "basic_expression" => inner(group(e))

(* C29: every parser that the grammar puts under repeat or one_or_more     *)
(* (basic_expression, '|' followed by a subexpression,                     *)
(* character_group_item, digit) consumes at least one character whenever   *)
(* it succeeds, and group hands to expression what follows its '(': so     *)
(* every iteration of the loop of repeat strictly shortens the remaining   *)
(* input, the results and the remaining input together never exceed the    *)
(* input, and the loop ends.                                               *)
C29_ParsingTerminates ==
    /\ [](Repeating =>
            /\ ConsumesOnSuccess(call.parser, call.current_expr)
            /\ Len(call.res) + Len(call.current_expr) <= Len(source))
    /\ [][(Repeating /\ call' # NoCall /\ Len(call'.res) > Len(call.res)) =>
             Len(call'.current_expr) < Len(call.current_expr)]_vars

C29_Witness ==
    /\ Repeating /\ call.returned
    /\ call.parser = "basic_expression"
    /\ source = <<"a", "?", "b", "+">>
    /\ Len(call.res) = 2
    /\ call.current_expr = <<>>

(***************************************************************************)
(* The accept state.                                                       *)
(***************************************************************************)
DeadTrivial(nfa) ==
    {q \in DOMAIN nfa.states : nfa.states[q].kind = "Trivial" /\ nfa.states[q].dest = <<>>}

(* C28: in every automaton that the constructors and the combinators       *)
(* concat, or, closure, optional and plus produce, the accept state is a   *)
(* Trivial state with no outgoing edge and is the only such state; hence   *)
(* the epsilon closure of a state keeps the accept state exactly when the  *)
(* accept state is reachable from it under the tags, and the membership    *)
(* test on the closure detects acceptance.                                 *)
C28_AcceptStateInvariant ==
    (regex.compiled /\ regex.ok) =>
        /\ DeadTrivial(regex.a) = {regex.a.end}
        /\ call = NoCall =>
              \A anchors \in TagLists : \A q \in DOMAIN regex.a.states :
                  Contains(exhaust_epsilons(regex.a, <<q>>, anchors), regex.a.end)
                      <=> regex.a.end \in Reach(regex.a, {q}, Elements(anchors))

C28_Witness ==
    /\ regex.compiled /\ regex.ok /\ call = NoCall
    /\ source = <<"^", "a", "*", "$">>
    /\ DeadTrivial(regex.a) = {regex.a.end}
    /\ Cardinality({q \in DOMAIN regex.a.states : regex.a.states[q].kind = "Trivial"}) > 2
    /\ Contains(exhaust_epsilons(regex.a, <<regex.a.start>>, <<"Start", "End", "WordBoundary">>),
                regex.a.end)
    /\ ~Contains(exhaust_epsilons(regex.a, <<regex.a.start>>, <<"Start", "WordBoundary">>),
                 regex.a.end)

====
